---- MODULE Spec2Model ----
(***************************************************************************)
(* Model of main.py: the colour-contrast validator (get_relative_luminance *)
(* and check_color_contrast) and the /generate-custom/ request handler     *)
(* that calls it.                                                          *)
(*                                                                         *)
(* Numbers.  The source computes in IEEE doubles; here every real is a     *)
(* fixed-point integer.  A linearised channel is held in units of 1e-5, a  *)
(* luminance in units of 1e-6, the contrast ratio as the pair              *)
(* <<numerator, denominator>> of its quotient (both in units of 1e-6), the *)
(* threshold in tenths and a ratio printed with "{ratio:.2f}" in           *)
(* hundredths.  The power ((c + 0.055) / 1.055) ** 2.4 has no integer form *)
(* and is tabulated per channel value in GammaTable.  On every pair of     *)
(* Colors the outcome (return, Color Error, Low Contrast Error) is the one *)
(* the doubles give; a printed ratio can differ from the doubles' by one   *)
(* hundredth where the quotient lies within 1e-4 of a rounding tie.        *)
(***************************************************************************)
EXTENDS Integers, Sequences, FiniteSets

(* ------------------------------ bounds --------------------------------- *)

\* number of request slots served concurrently by the worker pool
NumRequests == 2

\* number of channel intensities drawn from ChannelSamples
NumSamples == 4

\* number of colour strings drawn from ColorStrings
NumColorStrings == 4

(* --------------------------- configuration ----------------------------- *)

\* RAPIDAPI_PROXY_SECRET, the default of the environment lookup
RAPIDAPI_PROXY_SECRET == "THIS_IS_MY_SECRET_KEY_12345"

\* MIN_CONTRAST_RATIO = 4.5 at import time, in tenths
MinContrastRatioAtImport == 45

(* ------------------------------ inputs --------------------------------- *)

Requests == 1..NumRequests

\* channel intensities: the extremes, the mid-grey of the documentation,
\* the two sides of the gamma breakpoint (10, 11) and a neighbour of 119
ChannelSamples == <<0, 255, 119, 11, 118, 10>>

Channels == {ChannelSamples[i] : i \in 1..NumSamples}

Colors == {<<r, g, b>> : r \in Channels, g \in Channels, b \in Channels}

\* values of the X-RapidAPI-Proxy-Secret header: absent, empty, wrong, right
NoHeader == "<None>"

Headers == {NoHeader, "", "wrong", RAPIDAPI_PROXY_SECRET}

\* values of the fill_color / back_color form fields
ColorStrings == <<"black", "white", "#777777", "notacolor", "navy">>

ColorInputs == {ColorStrings[i] : i \in 1..NumColorStrings}

\* values of the module_style form field
ModuleStyles == {"square", "rounded", "dot"}

(* ------------------------- colour resolution --------------------------- *)

ValueError == <<>>

\* ImageColor.getcolor(s, "RGB"): a colour name or a hexadecimal string
\* resolves to its RGB triple, anything else raises ValueError
getcolor(s) ==
    CASE s = "black"   -> <<0, 0, 0>>
      [] s = "white"   -> <<255, 255, 255>>
      [] s = "navy"    -> <<0, 0, 128>>
      [] s = "#777777" -> <<119, 119, 119>>
      [] OTHER         -> ValueError

(* ------------------------- relative luminance -------------------------- *)

\* ((c / 255.0 + 0.055) / 1.055) ** 2.4 in units of 1e-5, for c = 0 .. 255
GammaTable ==
<<
    83, 98, 115, 133, 152, 173, 196, 220,
    246, 274, 303, 335, 368, 402, 439, 478,
    518, 561, 605, 651, 700, 750, 802, 857,
    913, 972, 1033, 1096, 1161, 1229, 1298, 1370,
    1444, 1521, 1600, 1681, 1764, 1850, 1938, 2029,
    2122, 2217, 2315, 2416, 2519, 2624, 2732, 2843,
    2956, 3071, 3190, 3310, 3434, 3560, 3689, 3820,
    3955, 4092, 4231, 4374, 4519, 4667, 4817, 4971,
    5127, 5286, 5448, 5613, 5781, 5951, 6125, 6301,
    6480, 6663, 6848, 7036, 7227, 7421, 7619, 7819,
    8022, 8228, 8438, 8650, 8866, 9084, 9306, 9531,
    9759, 9990, 10224, 10462, 10702, 10946, 11193, 11444,
    11697, 11954, 12214, 12477, 12744, 13014, 13287, 13563,
    13843, 14126, 14413, 14703, 14996, 15293, 15593, 15896,
    16203, 16513, 16827, 17144, 17465, 17789, 18116, 18447,
    18782, 19120, 19462, 19807, 20156, 20508, 20864, 21223,
    21586, 21953, 22323, 22697, 23074, 23455, 23840, 24228,
    24620, 25016, 25415, 25818, 26225, 26636, 27050, 27468,
    27889, 28315, 28744, 29177, 29614, 30054, 30499, 30947,
    31399, 31855, 32314, 32778, 33245, 33716, 34191, 34670,
    35153, 35640, 36131, 36625, 37124, 37626, 38133, 38643,
    39157, 39676, 40198, 40724, 41254, 41789, 42327, 42869,
    43415, 43966, 44520, 45079, 45641, 46208, 46778, 47353,
    47932, 48515, 49102, 49693, 50289, 50888, 51492, 52100,
    52712, 53328, 53948, 54572, 55201, 55834, 56471, 57112,
    57758, 58408, 59062, 59720, 60383, 61050, 61721, 62396,
    63076, 63760, 64448, 65141, 65837, 66539, 67244, 67954,
    68669, 69387, 70110, 70838, 71569, 72306, 73046, 73791,
    74540, 75294, 76052, 76815, 77582, 78354, 79130, 79910,
    80695, 81485, 82279, 83077, 83880, 84687, 85499, 86316,
    87137, 87962, 88792, 89627, 90466, 91310, 92158, 93011,
    93869, 94731, 95597, 96469, 97345, 98225, 99110, 100000
>>

\* one channel of get_relative_luminance: x / 255.0, then x / 12.92 at or
\* below the breakpoint 0.03928 and the power law above it (units of 1e-5)
Linearize(c) ==
    IF c * 100000 <= 3928 * 255
    THEN (2 * c * 1000000 + 32946) \div (2 * 32946)
    ELSE GammaTable[c + 1]

\* 0.2126 * r + 0.7152 * g + 0.0822 * b, in units of 1e-6
get_relative_luminance(rgb) ==
    (2126 * Linearize(rgb[1]) + 7152 * Linearize(rgb[2])
       + 822 * Linearize(rgb[3])) \div 1000

(* --------------------------- contrast check ---------------------------- *)

NoRatio == <<>>

NoNumber == -1

NoDetail == [text |-> "", ratio |-> NoNumber, min |-> NoNumber]

\* detail of the HTTPException raised for an inverted pair
ColorErrorText ==
    "Color Error: Fill color must be darker than the background color for scannability."

\* detail of the HTTPException raised for a low ratio; the text carries the
\* ratio formatted with .2f and MIN_CONTRAST_RATIO
LowContrastText ==
    "Low Contrast Error: The contrast ratio between colors is {ratio:.2f}:1. It must be at least {MIN_CONTRAST_RATIO}:1 to be scannable. Please choose a darker fill color or a lighter background."

\* detail of the HTTPException raised when a colour string does not resolve
InvalidColorText == "Invalid color name provided."

\* detail of the HTTPException raised by verify_secret
ForbiddenText == "Forbidden: Invalid or missing secret key."

\* variant of Format2f: the quotient cut to hundredths instead of rounded
Format2f_truncated(ratio) == (100 * ratio[1]) \div ratio[2]

\* f"{ratio:.2f}": the quotient rounded to hundredths
Format2f(ratio) == (200 * ratio[1] + ratio[2]) \div (2 * ratio[2])

\* variant of Ratio: the quotient taken the other way round
Ratio_swapped(lum1, lum2) == <<lum1 + 50000, lum2 + 50000>>

\* (lum2 + 0.05) / (lum1 + 0.05)
Ratio(lum1, lum2) == <<lum2 + 50000, lum1 + 50000>>

\* ratio < min_ratio, min_ratio in tenths
RatioBelow(ratio, min_ratio) == 10 * ratio[1] < min_ratio * ratio[2]

NotCalled ==
    [state |-> "not_called", status_code |-> 0, detail |-> NoDetail,
     ratio |-> NoRatio]

\* variant of check_color_contrast: the ordering test is left out and an
\* inverted pair falls through to the ratio test
check_color_contrast_no_ordering(color1_rgb, color2_rgb, min_ratio) ==
    LET lum1 == get_relative_luminance(color1_rgb)
        lum2 == get_relative_luminance(color2_rgb)
        ratio == Ratio(lum1, lum2)
    IN  IF RatioBelow(ratio, min_ratio)
        THEN [state |-> "raised", status_code |-> 400,
              detail |-> [text |-> LowContrastText,
                          ratio |-> Format2f(ratio), min |-> min_ratio],
              ratio |-> ratio]
        ELSE [state |-> "returned", status_code |-> 0, detail |-> NoDetail,
              ratio |-> ratio]

\* variant of check_color_contrast: the ordering test is lum1 >= lum2
check_color_contrast_strict_ordering(color1_rgb, color2_rgb, min_ratio) ==
    LET lum1 == get_relative_luminance(color1_rgb)
        lum2 == get_relative_luminance(color2_rgb)
        ratio == Ratio(lum1, lum2)
    IN  IF lum1 >= lum2
        THEN [state |-> "raised", status_code |-> 400,
              detail |-> [text |-> ColorErrorText, ratio |-> NoNumber,
                          min |-> NoNumber],
              ratio |-> NoRatio]
        ELSE IF RatioBelow(ratio, min_ratio)
        THEN [state |-> "raised", status_code |-> 400,
              detail |-> [text |-> LowContrastText,
                          ratio |-> Format2f(ratio), min |-> min_ratio],
              ratio |-> ratio]
        ELSE [state |-> "returned", status_code |-> 0, detail |-> NoDetail,
              ratio |-> ratio]

\* variant of check_color_contrast: the ratio test is turned round and
\* raises for a ratio above the minimum
check_color_contrast_flipped_test(color1_rgb, color2_rgb, min_ratio) ==
    LET lum1 == get_relative_luminance(color1_rgb)
        lum2 == get_relative_luminance(color2_rgb)
        ratio == Ratio(lum1, lum2)
    IN  IF lum1 > lum2
        THEN [state |-> "raised", status_code |-> 400,
              detail |-> [text |-> ColorErrorText, ratio |-> NoNumber,
                          min |-> NoNumber],
              ratio |-> NoRatio]
        ELSE IF ~RatioBelow(ratio, min_ratio)
        THEN [state |-> "raised", status_code |-> 400,
              detail |-> [text |-> LowContrastText,
                          ratio |-> Format2f(ratio), min |-> min_ratio],
              ratio |-> ratio]
        ELSE [state |-> "returned", status_code |-> 0, detail |-> NoDetail,
              ratio |-> ratio]

\* check_color_contrast(color1_rgb, color2_rgb) run with the module global
\* MIN_CONTRAST_RATIO = min_ratio: the HTTPException it raises, or its
\* return; ratio is the local of that name (unset when the first raise fires)
check_color_contrast(color1_rgb, color2_rgb, min_ratio) ==
    LET lum1 == get_relative_luminance(color1_rgb)
        lum2 == get_relative_luminance(color2_rgb)
        ratio == Ratio(lum1, lum2)
    IN  IF lum1 > lum2
        THEN [state |-> "raised", status_code |-> 400,
              detail |-> [text |-> ColorErrorText, ratio |-> NoNumber,
                          min |-> NoNumber],
              ratio |-> NoRatio]
        ELSE IF RatioBelow(ratio, min_ratio)
        THEN [state |-> "raised", status_code |-> 400,
              detail |-> [text |-> LowContrastText,
                          ratio |-> Format2f(ratio), min |-> min_ratio],
              ratio |-> ratio]
        ELSE [state |-> "returned", status_code |-> 0, detail |-> NoDetail,
              ratio |-> ratio]

(* ------------------------------- state --------------------------------- *)

VARIABLES
    MIN_CONTRAST_RATIO,  \* the module global, in tenths
    pc,                  \* position of each request in its handler
    fill,                \* local fill of generate_custom_qr_code
    back,                \* local back
    result,              \* what the call of check_color_contrast produced
    drawer,              \* local drawer
    response             \* the response sent for the request

vars == <<MIN_CONTRAST_RATIO, pc, fill, back, result, drawer, response>>

NoColor == <<>>

NoDrawer == "<unset>"

NoResponse == [status_code |-> 0, detail |-> NoDetail]

HTTPError(code, text) ==
    [status_code |-> code,
     detail |-> [text |-> text, ratio |-> NoNumber, min |-> NoNumber]]

\* StreamingResponse(buf, media_type="image/png")
ImageResponse ==
    [status_code |-> 200,
     detail |-> [text |-> "image/png", ratio |-> NoNumber, min |-> NoNumber]]

\* an exception no handler catches: the framework answers 500
ServerError == HTTPError(500, "Internal Server Error")

Init ==
    /\ MIN_CONTRAST_RATIO = MinContrastRatioAtImport
    /\ pc = [r \in Requests |-> "idle"]
    /\ fill = [r \in Requests |-> NoColor]
    /\ back = [r \in Requests |-> NoColor]
    /\ result = [r \in Requests |-> NotCalled]
    /\ drawer = [r \in Requests |-> NoDrawer]
    /\ response = [r \in Requests |-> NoResponse]

(* ------------------------------ actions -------------------------------- *)

\* a request arrives and the app-wide dependency verify_secret runs
VerifySecret(r) ==
    /\ pc[r] = "idle"
    /\ \E h \in Headers :
         IF h = NoHeader \/ h = "" \/ h # RAPIDAPI_PROXY_SECRET
         THEN /\ response' = [response EXCEPT ![r] = HTTPError(403, ForbiddenText)]
              /\ pc' = [pc EXCEPT ![r] = "done"]
         ELSE /\ pc' = [pc EXCEPT ![r] = "getcolor_fill"]
              /\ UNCHANGED response
    /\ UNCHANGED <<MIN_CONTRAST_RATIO, fill, back, result, drawer>>

\* fill = ImageColor.getcolor(fill_color, "RGB"), inside the try
GetColorFill(r) ==
    /\ pc[r] = "getcolor_fill"
    /\ \E s \in ColorInputs :
         IF getcolor(s) = ValueError
         THEN /\ response' = [response EXCEPT ![r] = HTTPError(400, InvalidColorText)]
              /\ pc' = [pc EXCEPT ![r] = "done"]
              /\ UNCHANGED fill
         ELSE /\ fill' = [fill EXCEPT ![r] = getcolor(s)]
              /\ pc' = [pc EXCEPT ![r] = "getcolor_back"]
              /\ UNCHANGED response
    /\ UNCHANGED <<MIN_CONTRAST_RATIO, back, result, drawer>>

\* back = ImageColor.getcolor(back_color, "RGB"), inside the try
GetColorBack(r) ==
    /\ pc[r] = "getcolor_back"
    /\ \E s \in ColorInputs :
         IF getcolor(s) = ValueError
         THEN /\ response' = [response EXCEPT ![r] = HTTPError(400, InvalidColorText)]
              /\ pc' = [pc EXCEPT ![r] = "done"]
              /\ UNCHANGED back
         ELSE /\ back' = [back EXCEPT ![r] = getcolor(s)]
              /\ pc' = [pc EXCEPT ![r] = "check"]
              /\ UNCHANGED response
    /\ UNCHANGED <<MIN_CONTRAST_RATIO, fill, result, drawer>>

\* variant of CheckContrast: the first except clause catches every
\* exception, the validator's included
CheckContrast_catch_all(r) ==
    /\ pc[r] = "check"
    /\ LET res == check_color_contrast(fill[r], back[r], MIN_CONTRAST_RATIO)
       IN  /\ result' = [result EXCEPT ![r] = res]
           /\ IF res.state = "raised"
              THEN /\ response' = [response EXCEPT ![r] =
                          HTTPError(400, InvalidColorText)]
                   /\ pc' = [pc EXCEPT ![r] = "done"]
              ELSE /\ pc' = [pc EXCEPT ![r] = "drawer"]
                   /\ UNCHANGED response
    /\ UNCHANGED <<MIN_CONTRAST_RATIO, fill, back, drawer>>

\* variant of CheckContrast: the second except clause swallows the
\* validator's exception and the handler goes on
CheckContrast_swallowed(r) ==
    /\ pc[r] = "check"
    /\ result' = [result EXCEPT ![r] =
          check_color_contrast(fill[r], back[r], MIN_CONTRAST_RATIO)]
    /\ pc' = [pc EXCEPT ![r] = "drawer"]
    /\ UNCHANGED <<MIN_CONTRAST_RATIO, fill, back, drawer, response>>

\* variant of CheckContrast: a rejection for low contrast relaxes the module
\* global for the calls that follow
CheckContrast_relaxing(r) ==
    /\ pc[r] = "check"
    /\ LET res == check_color_contrast(fill[r], back[r], MIN_CONTRAST_RATIO)
       IN  /\ result' = [result EXCEPT ![r] = res]
           /\ IF res.state = "raised"
              THEN /\ response' = [response EXCEPT ![r] =
                          [status_code |-> res.status_code, detail |-> res.detail]]
                   /\ pc' = [pc EXCEPT ![r] = "done"]
              ELSE /\ pc' = [pc EXCEPT ![r] = "drawer"]
                   /\ UNCHANGED response
           /\ MIN_CONTRAST_RATIO' =
                 IF res.detail.text = LowContrastText /\ MIN_CONTRAST_RATIO > 40
                 THEN MIN_CONTRAST_RATIO - 5
                 ELSE MIN_CONTRAST_RATIO
    /\ UNCHANGED <<fill, back, drawer>>

\* check_color_contrast(fill, back), inside the try; an HTTPException is
\* caught by the second except clause and raised again
CheckContrast(r) ==
    /\ pc[r] = "check"
    /\ LET res == check_color_contrast(fill[r], back[r], MIN_CONTRAST_RATIO)
       IN  /\ result' = [result EXCEPT ![r] = res]
           /\ IF res.state = "raised"
              THEN /\ response' = [response EXCEPT ![r] =
                          [status_code |-> res.status_code, detail |-> res.detail]]
                   /\ pc' = [pc EXCEPT ![r] = "done"]
              ELSE /\ pc' = [pc EXCEPT ![r] = "drawer"]
                   /\ UNCHANGED response
    /\ UNCHANGED <<MIN_CONTRAST_RATIO, fill, back, drawer>>

\* the if / elif / else over module_style
SelectDrawer(r) ==
    /\ pc[r] = "drawer"
    /\ \E module_style \in ModuleStyles :
         drawer' = [drawer EXCEPT ![r] =
            IF module_style = "rounded" THEN "RoundedModuleDrawer"
            ELSE IF module_style = "dot" THEN "CircleModuleDrawer"
            ELSE "GappedSquareModuleDrawer"]
    /\ pc' = [pc EXCEPT ![r] = "make_image"]
    /\ UNCHANGED <<MIN_CONTRAST_RATIO, fill, back, result, response>>

\* qrcode.QRCode(...), qr.add_data(url), qr.make_image(...): a url too long
\* for the largest symbol makes the encoder raise, which nothing catches
MakeImage(r) ==
    /\ pc[r] = "make_image"
    /\ \E url_fits \in BOOLEAN :
         IF url_fits
         THEN /\ pc' = [pc EXCEPT ![r] = "logo"]
              /\ UNCHANGED response
         ELSE /\ response' = [response EXCEPT ![r] = ServerError]
              /\ pc' = [pc EXCEPT ![r] = "done"]
    /\ UNCHANGED <<MIN_CONTRAST_RATIO, fill, back, result, drawer>>

\* Image.open(logo_file.file) ... return StreamingResponse(...): an upload
\* that is not an image makes Image.open raise, which nothing catches
PasteLogo(r) ==
    /\ pc[r] = "logo"
    /\ \E logo_is_image \in BOOLEAN :
         response' = [response EXCEPT ![r] =
            IF logo_is_image THEN ImageResponse ELSE ServerError]
    /\ pc' = [pc EXCEPT ![r] = "done"]
    /\ UNCHANGED <<MIN_CONTRAST_RATIO, fill, back, result, drawer>>

\* the response is sent, the locals of the call are gone and the slot takes
\* the next request
Finish(r) ==
    /\ pc[r] = "done"
    /\ pc' = [pc EXCEPT ![r] = "idle"]
    /\ fill' = [fill EXCEPT ![r] = NoColor]
    /\ back' = [back EXCEPT ![r] = NoColor]
    /\ result' = [result EXCEPT ![r] = NotCalled]
    /\ drawer' = [drawer EXCEPT ![r] = NoDrawer]
    /\ response' = [response EXCEPT ![r] = NoResponse]
    /\ UNCHANGED MIN_CONTRAST_RATIO

Next ==
    \E r \in Requests :
        \/ VerifySecret(r)
        \/ GetColorFill(r)
        \/ GetColorBack(r)
        \/ CheckContrast(r)
        \/ SelectDrawer(r)
        \/ MakeImage(r)
        \/ PasteLogo(r)
        \/ Finish(r)

Spec == Init /\ [][Next]_vars

(* ------------- the validator alone, over every colour pair -------------- *)

\* one call of check_color_contrast about to be made, on any pair of
\* colours a hexadecimal string can name
InitFn ==
    /\ MIN_CONTRAST_RATIO = MinContrastRatioAtImport
    /\ pc = [r \in Requests |-> IF r = 1 THEN "check" ELSE "idle"]
    /\ \E f \in Colors, b \in Colors :
         /\ fill = [r \in Requests |-> IF r = 1 THEN f ELSE NoColor]
         /\ back = [r \in Requests |-> IF r = 1 THEN b ELSE NoColor]
    /\ result = [r \in Requests |-> NotCalled]
    /\ drawer = [r \in Requests |-> NoDrawer]
    /\ response = [r \in Requests |-> NoResponse]

NextFn == \E r \in Requests : CheckContrast(r)

SpecFn == InitFn /\ [][NextFn]_vars

(* ------------------------------ claims --------------------------------- *)

\* check_color_contrast has been called for request r and its outcome is held
Checked(r) == result[r].state # "not_called"

\* the kind of an outcome in the words of the specification
Kind(res) ==
    IF res.state = "returned" THEN "Accepted"
    ELSE IF res.detail.text = ColorErrorText THEN "FillNotDarker"
    ELSE IF res.detail.text = LowContrastText THEN "InsufficientContrast"
    ELSE "Other"

Black == <<0, 0, 0>>

White == <<255, 255, 255>>

\* C1: a pair whose fill is more luminous than its background is rejected as
\* FillNotDarker, with no ratio computed and none reported; white on black
\* is such a pair.
C1_FillNotDarker ==
    \A r \in Requests :
        /\ (Checked(r) /\ get_relative_luminance(fill[r])
                             > get_relative_luminance(back[r]))
              => /\ Kind(result[r]) = "FillNotDarker"
                 /\ result[r].ratio = NoRatio
                 /\ result[r].detail.ratio = NoNumber
        /\ (Checked(r) /\ fill[r] = White /\ back[r] = Black)
              => Kind(result[r]) = "FillNotDarker"

C1_Witness ==
    \E r \in Requests :
        Checked(r) /\ fill[r] = White /\ back[r] = Black
                   /\ Kind(result[r]) = "FillNotDarker"

\* C2: a colour checked against itself is rejected as InsufficientContrast
\* with a reported ratio of 1.00, under 4.5 and under every threshold above 1
\* (here every threshold from 1.1 to 21.0 in steps of 0.1).
C2_IdentityRejected ==
    \A r \in Requests :
        (Checked(r) /\ fill[r] = back[r])
            => /\ Kind(result[r]) = "InsufficientContrast"
               /\ result[r].detail.ratio = 100
               /\ result[r].ratio[1] = result[r].ratio[2]
               /\ \A t \in 11..210 :
                     LET res == check_color_contrast(fill[r], back[r], t)
                     IN  Kind(res) = "InsufficientContrast"
                            /\ res.detail.ratio = 100

C2_Witness ==
    \E r \in Requests :
        Checked(r) /\ fill[r] = back[r] /\ fill[r] = <<119, 119, 119>>
                   /\ result[r].detail.ratio = 100

\* C3: black on white is Accepted with luminances 0 and 1 and a ratio of
\* exactly 21.0, the largest ratio of any colour pair.
C3_Extremes ==
    \A r \in Requests :
        (Checked(r) /\ fill[r] = Black /\ back[r] = White)
            => /\ Kind(result[r]) = "Accepted"
               /\ get_relative_luminance(Black) = 0
               /\ get_relative_luminance(White) = 1000000
               /\ result[r].ratio[1] = 21 * result[r].ratio[2]
               /\ \A f \in Colors, b \in Colors :
                     LET q == Ratio(get_relative_luminance(f),
                                    get_relative_luminance(b))
                     IN  q[1] * result[r].ratio[2] <= result[r].ratio[1] * q[2]

\* C4: the luminance of every colour with channels in 0..255 lies in [0, 1].
C4_LuminanceRange ==
    \A r \in Requests :
        Checked(r)
            => /\ get_relative_luminance(fill[r]) \in 0..1000000
               /\ get_relative_luminance(back[r]) \in 0..1000000

C6_Monotonic ==
    \A r \in Requests :
        Checked(r)
            => /\ \A f2 \in Colors :
                     (\A i \in 1..3 : f2[i] <= fill[r][i])
                        => get_relative_luminance(f2)
                              <= get_relative_luminance(fill[r])
               /\ Kind(result[r]) = "Accepted"
                     => \A f2 \in Colors :
                           (\A i \in 1..3 : f2[i] < fill[r][i])
                              => Kind(check_color_contrast(f2, back[r],
                                        MIN_CONTRAST_RATIO)) = "Accepted"

\* an accepted fill that has a strictly darker colour below it
C6_Witness ==
    \E r \in Requests :
        /\ Checked(r)
        /\ Kind(result[r]) = "Accepted"
        /\ \A i \in 1..3 : fill[r][i] > 0
        /\ \E f2 \in Colors : \A i \in 1..3 : f2[i] < fill[r][i]

\* C7 as stated: every rejection, of either kind, carries the computed
\* ratio rounded to 2 decimal places and the required threshold.
C7_EveryRejectionCarriesRatio ==
    \A r \in Requests :
        (Checked(r) /\ result[r].state = "raised")
            => /\ Kind(result[r]) \in {"FillNotDarker", "InsufficientContrast"}
               /\ result[r].detail.ratio # NoNumber
               /\ result[r].detail.min # NoNumber

\* C7 amended: every rejection is an HTTPException with status 400 whose
\* detail tells the two kinds apart; the detail of InsufficientContrast
\* carries the computed ratio rounded to 2 decimal places and the threshold,
\* the detail of FillNotDarker carries neither, no ratio having been computed.
C7_RejectionDetail ==
    \A r \in Requests :
        (Checked(r) /\ result[r].state = "raised")
            => /\ result[r].status_code = 400
               /\ Kind(result[r]) \in {"FillNotDarker", "InsufficientContrast"}
               /\ Kind(result[r]) = "InsufficientContrast"
                     => LET num == get_relative_luminance(back[r]) + 50000
                            den == get_relative_luminance(fill[r]) + 50000
                        IN  /\ result[r].detail.ratio
                                  = (200 * num + den) \div (2 * den)
                            /\ result[r].detail.min = MinContrastRatioAtImport
               /\ Kind(result[r]) = "FillNotDarker"
                     => /\ result[r].detail.ratio = NoNumber
                        /\ result[r].detail.min = NoNumber
                        /\ result[r].ratio = NoRatio

\* a low-contrast rejection whose ratio prints as 4.49 (mid-grey on white)
C7_Witness ==
    \E r \in Requests :
        /\ Checked(r)
        /\ Kind(result[r]) = "InsufficientContrast"
        /\ fill[r] = <<119, 119, 119>> /\ back[r] = White
        /\ result[r].detail.ratio = 449

\* C8: a request whose fill_color or back_color does not resolve ends with
\* 400 "Invalid color name provided." without check_color_contrast having
\* been called, and that response is sent for nothing else.
C8_InvalidColor ==
    \A r \in Requests :
        /\ (pc[r] = "done" /\ response[r].status_code # 403
                /\ (fill[r] = NoColor \/ back[r] = NoColor))
              => /\ response[r] = HTTPError(400, InvalidColorText)
                 /\ result[r] = NotCalled
        /\ response[r].detail.text = InvalidColorText
              => /\ result[r] = NotCalled
                 /\ (fill[r] = NoColor \/ back[r] = NoColor)
        /\ Checked(r) => (fill[r] # NoColor /\ back[r] # NoColor)

\* a fill that resolved followed by a background that did not
C8_Witness ==
    \E r \in Requests :
        /\ pc[r] = "done"
        /\ fill[r] # NoColor /\ back[r] = NoColor
        /\ response[r] = HTTPError(400, InvalidColorText)
        /\ result[r] = NotCalled

\* C9: a request whose colour pair is rejected gets a 400 with the
\* validator's detail and never reaches drawer selection, encoding or logo
\* compositing; those steps and the image response follow an Accepted pair only.
C9_ValidationFirst ==
    \A r \in Requests :
        /\ (Checked(r) /\ result[r].state = "raised")
              => /\ pc[r] = "done"
                 /\ response[r].status_code = 400
                 /\ response[r].detail = result[r].detail
                 /\ drawer[r] = NoDrawer
        /\ (pc[r] \in {"drawer", "make_image", "logo"} \/ drawer[r] # NoDrawer)
              => Kind(result[r]) = "Accepted"
        /\ response[r] = ImageResponse => Kind(result[r]) = "Accepted"

\* one request answered with the image while another was rejected
C9_Witness ==
    \E r1 \in Requests, r2 \in Requests :
        /\ response[r1] = ImageResponse
        /\ Checked(r2) /\ result[r2].state = "raised"
        /\ response[r2].status_code = 400

====
